---- MODULE Spec2Model ----
(***************************************************************************)
(* Model of hermpy/boundary_crossings.py: Load_Crossings reads a pickled   *)
(* table of boundary-crossing intervals and projects it onto six columns;  *)
(* Plot_Crossing_Intervals and Plot_Crossings_As_Minutes_Before walk the   *)
(* table row by row and add text and dashed vertical lines to a pyplot     *)
(* axis for the rows that fall inside the plotted window.                  *)
(*                                                                         *)
(* Times are whole seconds on a 30 s grid, so that timedelta / 2 and       *)
(* total_seconds() are exact; a quotient of two float second counts is     *)
(* kept as a reduced fraction [num, den].                                  *)
(***************************************************************************)
EXTENDS Integers, Sequences, FiniteSets

VARIABLES
    file,        \* what is stored at path
    crossings,   \* <<>> or <<the DataFrame Load_Crossings returned>>
    loaded,      \* "none", "ok" or the exception Load_Crossings raised
    axis,        \* the artifacts on the caller's Axes, in the order added
    axisBefore,  \* axis as it was when the overlay call began
    call,        \* the arguments of the overlay call
    outcome,     \* "none", "ok" or the exception the overlay call raised
    divisors     \* the divisors of the divisions the overlay call evaluated

vars == <<file, crossings, loaded, axis, axisBefore, call, outcome, divisors>>

\* ---------------------------------------------------------------- bounds
\* the longest table
MaxRows == 2

\* Four instants (seconds after an epoch) realise every relative order of a
\* row's start and end and the two ends of the window.
Times == {0, 30, 60, 90}
ApoapsisTimes == {30, 60}

\* ------------------------------------------------------------ arithmetic
Abs(n) == IF n < 0 THEN -n ELSE n

RECURSIVE GCD(_, _)
GCD(a, b) == IF b = 0 THEN a ELSE GCD(b, a % b)

\* a / b of two floats, b # 0, as a fraction in lowest terms, den > 0
Frac(n, d) ==
    LET g == GCD(Abs(n), Abs(d))
        s == IF d < 0 THEN -1 ELSE 1
    IN  [num |-> (s * n) \div g, den |-> (s * d) \div g]

\* ------------------------------------------------------------- str values
\* A value of the Type column: a str (its characters) or a float NaN, which
\* pandas stores for a missing entry of an object column.
Str(cs) == [isstr |-> TRUE, chars |-> cs]
NaN == [isstr |-> FALSE, chars |-> <<>>]

\* str.upper() of one character: the full Unicode mapping, under which the
\* German sharp s becomes the two characters SS.
UpperChar(c) ==
    CASE c = "m" -> <<"M">>
      [] c = "sharp_s" -> <<"S", "S">>
      [] OTHER -> <<c>>

RECURSIVE upper(_)
upper(cs) == IF cs = <<>> THEN <<>> ELSE UpperChar(Head(cs)) \o upper(Tail(cs))

\* str.replace(old, new) for one-character old and new
replace(cs, old, new) == [k \in 1..Len(cs) |-> IF cs[k] = old THEN new ELSE cs[k]]

\* faulty variant of LabelText: the underscores stay
LabelTextUpperOnly(type) == upper(type.chars)

\* row["type"].upper().replace("_", " ")
LabelText(type) == replace(upper(type.chars), "_", " ")

\* ------------------------------------------------------------ source file
TypeValues == {Str(<<"m", "_", "sharp_s", "1", "P">>), NaN}

\* what the upstream producer stores for one interval (start <= end)
Intervals == {r \in [start : Times, end : Times, Type : TypeValues] : r.start <= r.end}

\* faulty variant of Projection: the x coordinate of the end point
ProjectionEndX ==
    << <<"start", "start">>, <<"end", "end">>, <<"start_x_msm", "end_x_msm">>,
       <<"start_y_msm", "start_y_msm">>, <<"start_z_msm", "start_z_msm">>,
       <<"type", "Type">> >>

\* the dict literal of lines 42-49, in evaluation order: result column, source column
Projection ==
    << <<"start", "start">>, <<"end", "end">>, <<"start_x_msm", "start_x_msm">>,
       <<"start_y_msm", "start_y_msm">>, <<"start_z_msm", "start_z_msm">>,
       <<"type", "Type">> >>

SourceColumns ==
    {"start", "end", "start_x_msm", "end_x_msm", "start_y_msm", "end_y_msm",
     "start_z_msm", "end_z_msm", "Type"}

\* the columns Load_Crossings reads (lines 43-48)
ReadColumns == {"start", "end", "start_x_msm", "start_y_msm", "start_z_msm", "Type"}

\* the cell of column c in row i; a coordinate is an opaque value, never
\* interpreted, that is different in every cell
Cell(c, i, r) ==
    CASE c = "start" -> r.start
      [] c = "end" -> r.end
      [] c = "Type" -> r.Type
      [] OTHER -> <<c, i>>

RowSeqs == UNION {[1..n -> Intervals] : n \in 0..MaxRows}

\* What is at path: nothing readable, bytes that are no pickle, or a pickled
\* table with the columns cols and the rows rows.
Files ==
    {[kind |-> "missing", cols |-> {}, rows |-> <<>>],
     [kind |-> "garbage", cols |-> {}, rows |-> <<>>]}
    \cup {[kind |-> "pickle", cols |-> SourceColumns \ drop, rows |-> rows] :
            drop \in {{}} \cup {{c} : c \in ReadColumns}, rows \in RowSeqs}

\* --------------------------------------------------------- Load_Crossings
\* pickle.load: one aligned sequence per stored column
pickle_load(f) ==
    [c \in f.cols |-> [i \in 1..Len(f.rows) |-> Cell(c, i, f.rows[i])]]

\* crossings_data[key] raises KeyError for the first key the record lacks
MissingKeys(data, proj) ==
    {k \in 1..Len(proj) : proj[k][2] \notin DOMAIN data}

\* pd.DataFrame({...}): the named columns, n aligned rows
DataFrame(data, proj) ==
    LET names == {proj[k][1] : k \in 1..Len(proj)}
        from(c) == proj[CHOOSE k \in 1..Len(proj) : proj[k][1] = c][2]
    IN  [n |-> Len(data[proj[1][2]]),
         cols |-> [c \in names |-> data[from(c)]]]

\* faulty variant of reformatted_crossings_data: a column the record lacks
\* is left out of the frame
ReformattedLenient(data, proj) ==
    LET present == SelectSeq(proj, LAMBDA p : p[2] \in DOMAIN data)
    IN  [raised |-> "none", value |-> <<DataFrame(data, present)>>]

\* lines 41-50: the six lookups, then the frame; a KeyError leaves no frame
reformatted_crossings_data(data, proj) ==
    IF MissingKeys(data, proj) # {}
    THEN [raised |-> "KeyError", value |-> <<>>]
    ELSE [raised |-> "none", value |-> <<DataFrame(data, proj)>>]

\* crossings.iterrows(): row i as a mapping from column name to value
Row(df, i) == [c \in DOMAIN df.cols |-> df.cols[c][i]]

Load_Crossings ==
    /\ loaded = "none"
    /\ IF file.kind = "missing"
       THEN /\ loaded' = "FileNotFoundError"
            /\ crossings' = <<>>
       ELSE IF file.kind = "garbage"
       THEN /\ loaded' = "UnpicklingError"
            /\ crossings' = <<>>
       ELSE LET r == reformatted_crossings_data(pickle_load(file), Projection)
            IN  /\ loaded' = IF r.raised = "none" THEN "ok" ELSE r.raised
                /\ crossings' = r.value
    /\ UNCHANGED <<file, axis, axisBefore, call, outcome, divisors>>

\* faulty variants of Selected
SelectedOverlap(row, start, end) == row["start"] < end /\ row["end"] > start

SelectedStartOnly(row, start, end) == row["start"] > start /\ row["start"] < end

SelectedInclusive(row, start, end) ==
    \/ (row["start"] >= start /\ row["start"] <= end)
    \/ (row["end"] >= start /\ row["end"] <= end)

SelectedUnordered(row, start, end) ==
    LET lo == IF start < end THEN start ELSE end
        hi == IF start < end THEN end ELSE start
    IN  \/ (row["start"] > lo /\ row["start"] < hi)
        \/ (row["end"] > lo /\ row["end"] < hi)

\* ------------------------------------------------------- overlay helpers
\* lines 100-102 and 177-179: the interval is in the plot
Selected(row, start, end) ==
    \/ (row["start"] > start /\ row["start"] < end)
    \/ (row["end"] > start /\ row["end"] < end)

\* lines 103 and 181
Midpoint(row) == row["start"] + (row["end"] - row["start"]) \div 2

\* faulty variant of LabelX: the offset of the midpoint is not taken
LabelXNoOffset(midpoint, start, end) == Frac(midpoint, end - start)

\* lines 108 and 189-190; evaluated only where end # start
LabelX(midpoint, start, end) == Frac(midpoint - start, end - start)

SecondsPerMinute == 60

\* faulty variant of MinutesBefore: minutes after apoapsis
MinutesAfter(apoapsis_time, t) == Frac(t - apoapsis_time, SecondsPerMinute)

\* lines 184-185
MinutesBefore(apoapsis_time, t) == Frac(apoapsis_time - t, SecondsPerMinute)

DefaultHeight == [num |-> 9, den |-> 10]

Text(x, height, s, color, i) ==
    [kind |-> "text", x |-> x, y |-> height, s |-> s, transform |-> "transAxes",
     color |-> color, ha |-> "center", va |-> "center", row |-> i]

AxVLine(x, color, i) ==
    [kind |-> "axvline", x |-> x, color |-> color, ls |-> "dashed", row |-> i]

\* the x of the two lines of a row: datetimes, or minutes before apoapsis
LineX(a, row, which) ==
    IF a.op = "Plot_Crossing_Intervals"
    THEN [date |-> row[which]]
    ELSE MinutesBefore(a.apoapsis_time, row[which])

\* One pass of the for loop from row i on. st = [axis, outcome, divisors];
\* an exception ends the loop and leaves the axis as it is at that point.
RECURSIVE PlotRows(_, _, _, _)
PlotRows(a, df, i, st) ==
    IF i > df.n THEN [st EXCEPT !.outcome = "ok"]
    ELSE
    LET row == Row(df, i) IN
    IF ~Selected(row, a.start, a.end) THEN PlotRows(a, df, i + 1, st)
    ELSE IF ~a.label
    THEN PlotRows(a, df, i + 1,
            [st EXCEPT !.axis = @ \o <<AxVLine(LineX(a, row, "start"), a.color, i),
                                       AxVLine(LineX(a, row, "end"), a.color, i)>>])
    ELSE
    \* the arguments of ax.text are evaluated left to right
    LET st1 == [st EXCEPT !.divisors = @ \cup {a.end - a.start}] IN
    IF a.end - a.start = 0 THEN [st1 EXCEPT !.outcome = "ZeroDivisionError"]
    ELSE IF ~row["type"].isstr THEN [st1 EXCEPT !.outcome = "AttributeError"]
    ELSE PlotRows(a, df, i + 1,
            [st1 EXCEPT !.axis = @ \o
                <<Text(LabelX(Midpoint(row), a.start, a.end), a.height,
                       LabelText(row["type"]), a.color, i),
                  AxVLine(LineX(a, row, "start"), a.color, i),
                  AxVLine(LineX(a, row, "end"), a.color, i)>>])

\* The body the two plotting functions share: a, the arguments of the call
\* (color and height at their defaults); the loop runs to its end or to the
\* first exception. axisBefore, call, outcome and divisors record the call.
Overlay(op, t0, t1, apo, lbl) ==
    LET a == IF op = "Plot_Crossing_Intervals"
             THEN [op |-> op, start |-> t0, end |-> t1, label |-> lbl,
                   height |-> DefaultHeight, color |-> "orange"]
             ELSE [op |-> op, start |-> t0, end |-> t1, apoapsis_time |-> apo,
                   label |-> lbl, height |-> DefaultHeight, color |-> "orange"]
        st == PlotRows(a, crossings[1], 1,
                          [axis |-> axis, outcome |-> "none", divisors |-> {}])
    IN
    /\ loaded = "ok"
    /\ outcome = "none"
    /\ axis' = st.axis
    /\ outcome' = st.outcome
    /\ divisors' = st.divisors
    /\ axisBefore' = axis
    /\ call' = a
    /\ UNCHANGED <<file, crossings, loaded>>

Plot_Crossing_Intervals ==
    \E t0 \in Times, t1 \in Times, lbl \in BOOLEAN :
        Overlay("Plot_Crossing_Intervals", t0, t1, 0, lbl)

Plot_Crossings_As_Minutes_Before ==
    \E t0 \in Times, t1 \in Times, apo \in ApoapsisTimes, lbl \in BOOLEAN :
        Overlay("Plot_Crossings_As_Minutes_Before", t0, t1, apo, lbl)

\* ---------------------------------------------------------- specification
NoCall == [op |-> "none"]

Init ==
    /\ file \in Files
    /\ crossings = <<>>
    /\ loaded = "none"
    /\ axis = <<[kind |-> "plot"]>>
    /\ axisBefore = axis
    /\ call = NoCall
    /\ outcome = "none"
    /\ divisors = {}

Next ==
    \/ Load_Crossings
    \/ Plot_Crossing_Intervals
    \/ Plot_Crossings_As_Minutes_Before

Spec == Init /\ [][Next]_vars

\* ================================================================ claims
Called == outcome # "none"

table == crossings[1]

\* the artifacts the call added, by their place on the axis
New == (Len(axisBefore) + 1)..Len(axis)
NewOf(i) == {k \in New : axis[k].row = i}
LinesOf(i) == {k \in NewOf(i) : axis[k].kind = "axvline"}
TextsOf(i) == {k \in NewOf(i) : axis[k].kind = "text"}

\* t is strictly inside the window of the call
InWindow(t) == call.start < t /\ t < call.end

\* C1: in both overlay operations a row whose start and end are both outside
\* the open window (a row spanning the window included) adds nothing to the
\* axis, and a call that returns has added exactly two dashed lines for every
\* row whose start or end is strictly inside the window.
C1_SelectionRule ==
    Called =>
        \A i \in 1..table.n :
            LET r == Row(table, i)
                sel == InWindow(r["start"]) \/ InWindow(r["end"])
            IN  /\ ~sel => NewOf(i) = {}
                /\ (sel /\ outcome = "ok") => Cardinality(LinesOf(i)) = 2
                /\ \A k \in LinesOf(i) : axis[k].ls = "dashed"

C1_Witness ==
    /\ outcome = "ok"
    /\ call.start < call.end
    /\ \E i \in 1..table.n :
        /\ Row(table, i)["start"] < call.start
        /\ Row(table, i)["end"] > call.end
        /\ NewOf(i) = {}

\* C2 as stated: a row whose start equals the start of the window adds
\* nothing to the axis, whatever its end is.
C2_StartOnBoundaryNeverDrawn ==
    Called =>
        \A i \in 1..table.n :
            Row(table, i)["start"] = call.start => NewOf(i) = {}

\* C2 amended: a row whose start equals the start of the window is drawn if
\* and only if its end is strictly inside the window.
C2_StartOnBoundary ==
    Called =>
        \A i \in 1..table.n :
            LET r == Row(table, i)
            IN  r["start"] = call.start =>
                    /\ ~InWindow(r["end"]) => NewOf(i) = {}
                    /\ (InWindow(r["end"]) /\ outcome = "ok") =>
                            Cardinality(LinesOf(i)) = 2

C2_Witness ==
    /\ outcome = "ok"
    /\ \E i \in 1..table.n :
        /\ Row(table, i)["start"] = call.start
        /\ InWindow(Row(table, i)["end"])
        /\ Cardinality(LinesOf(i)) = 2

\* C3 as stated: a call with windowStart = windowEnd ends in InvalidWindowError.
C3_ZeroWidthRaises ==
    (Called /\ call.start = call.end) => outcome = "InvalidWindowError"

\* C3 amended: a call with windowStart = windowEnd returns normally, adds
\* nothing to the axis and evaluates no division.
C3_ZeroWidthReturns ==
    (Called /\ call.start = call.end) =>
        /\ outcome = "ok"
        /\ axis = axisBefore
        /\ divisors = {}

C3_Witness ==
    /\ Called
    /\ call.start = call.end
    /\ call.label
    /\ \E i \in 1..table.n :
        /\ Row(table, i)["start"] = call.start
        /\ Row(table, i)["type"].isstr

\* C4 as stated: an overlay call either returns, or fails with the axis
\* holding exactly the artifacts it held before the call.
C4_AllOrNothing ==
    Called => (outcome = "ok" \/ axis = axisBefore)

\* x is secs seconds expressed in minutes
IsMinutes(x, secs) == x.den > 0 /\ x.num * 60 = x.den * secs

\* C5: in Plot_Crossings_As_Minutes_Before the lines of a row are, in this
\* order, at (apoapsis_time - start) and (apoapsis_time - end) in minutes,
\* and a call that returns has drawn them for every selected row.
C5_MinutesBeforeApoapsis ==
    (Called /\ call.op = "Plot_Crossings_As_Minutes_Before") =>
        \A i \in 1..table.n :
            LET r == Row(table, i)
                sel == InWindow(r["start"]) \/ InWindow(r["end"])
            IN  /\ (sel /\ outcome = "ok") => LinesOf(i) # {}
                /\ LinesOf(i) # {} =>
                     \E k1, k2 \in LinesOf(i) :
                        /\ k1 < k2
                        /\ LinesOf(i) = {k1, k2}
                        /\ IsMinutes(axis[k1].x, call.apoapsis_time - r["start"])
                        /\ IsMinutes(axis[k2].x, call.apoapsis_time - r["end"])

C5_Witness ==
    /\ outcome = "ok"
    /\ call.op = "Plot_Crossings_As_Minutes_Before"
    /\ \E i \in 1..table.n, k1, k2 \in New :
        /\ Row(table, i)["start"] < call.apoapsis_time
        /\ Row(table, i)["end"] > call.apoapsis_time
        /\ LinesOf(i) = {k1, k2}
        /\ axis[k1].x = [num |-> 1, den |-> 2]
        /\ axis[k2].x = [num |-> -1, den |-> 2]

\* C6: with label false no text is added; with label true the text of a row
\* is at x = (midpoint - windowStart) / (windowEnd - windowStart) in axis
\* coordinates, midpoint = start + (end - start) / 2, in both operations and
\* whatever apoapsis_time is; a call that returns has added one text for
\* every selected row.
C6_LabelPlacement ==
    Called =>
        \A i \in 1..table.n :
            LET r == Row(table, i)
                sel == InWindow(r["start"]) \/ InWindow(r["end"])
            IN  /\ ~call.label => TextsOf(i) = {}
                /\ (call.label /\ sel /\ outcome = "ok") => Cardinality(TextsOf(i)) = 1
                /\ \A k \in TextsOf(i) :
                     /\ axis[k].transform = "transAxes"
                     /\ axis[k].x.den > 0
                     /\ axis[k].x.num * 2 * (call.end - call.start)
                          = axis[k].x.den
                              * (2 * r["start"] + (r["end"] - r["start"]) - 2 * call.start)

C6_Witness ==
    /\ outcome = "ok"
    /\ call.op = "Plot_Crossings_As_Minutes_Before"
    /\ call.start > 0
    /\ \E i \in 1..table.n :
        \E k \in TextsOf(i) : axis[k].x = [num |-> 1, den |-> 4]

\* the file holds a well-formed record
WellFormed == file.kind = "pickle" /\ ReadColumns \subseteq file.cols

C8_NoPartialTable ==
    loaded # "none" =>
        /\ WellFormed <=> Len(crossings) = 1
        /\ Len(crossings) = 1 =>
             /\ loaded = "ok"
             /\ Cardinality(DOMAIN table.cols) = 6
             /\ \A c \in DOMAIN table.cols : Len(table.cols[c]) = Len(file.rows)
        /\ Len(crossings) # 1 =>
             /\ crossings = <<>>
             /\ loaded \in {"FileNotFoundError", "UnpicklingError", "KeyError"}

C8_Witness ==
    /\ loaded = "KeyError"
    /\ crossings = <<>>
    /\ file.cols = SourceColumns \ {"Type"}
    /\ Len(file.rows) = 2

\* the character the claim gives for c
ClaimedChar(c) ==
    CASE c = "_" -> " "
      [] c = "m" -> "M"
      [] OTHER -> c

\* C9 as stated: the label text has the length of the type, every lowercase
\* letter replaced by its capital, every underscore by a space and every
\* other character as it is; the type in the table is not changed.
C9_LabelTextSameLength ==
    Called =>
        \A i \in 1..table.n :
            /\ Row(table, i)["type"] = file.rows[i].Type
            /\ \A k \in TextsOf(i) :
                LET t == Row(table, i)["type"].chars
                IN  /\ Len(axis[k].s) = Len(t)
                    /\ \A p \in 1..Len(t) : axis[k].s[p] = ClaimedChar(t[p])

\* what the amended claim gives for the characters cs
RECURSIVE AmendedText(_)
AmendedText(cs) ==
    IF cs = <<>> THEN <<>>
    ELSE (IF Head(cs) = "sharp_s" THEN <<"S", "S">> ELSE <<ClaimedChar(Head(cs))>>)
            \o AmendedText(Tail(cs))

\* C9 amended: the label text is the type with every underscore replaced by
\* a space and every other character by its uppercase mapping, which for the
\* sharp s is the two characters SS, so that the text is longer than the
\* type by one character for each sharp s; the type in the table is not
\* changed.
C9_LabelText ==
    Called =>
        \A i \in 1..table.n :
            /\ Row(table, i)["type"] = file.rows[i].Type
            /\ \A k \in TextsOf(i) :
                LET t == Row(table, i)["type"].chars
                IN  /\ axis[k].s = AmendedText(t)
                    /\ Len(axis[k].s) =
                         Len(t) + Cardinality({p \in 1..Len(t) : t[p] = "sharp_s"})

C9_Witness ==
    /\ outcome = "ok"
    /\ \E i \in 1..table.n :
        \E k \in TextsOf(i) :
            /\ Row(table, i)["type"].chars = <<"m", "_", "sharp_s", "1", "P">>
            /\ axis[k].s = <<"M", " ", "S", "S", "1", "P">>

\* C10: a division by the width of the window is evaluated only in a call
\* whose window has windowStart < windowEnd, never by zero; a call with
\* windowEnd <= windowStart selects no row, returns and leaves the axis as
\* it was.
C10_NoDivisionByZero ==
    Called =>
        /\ 0 \notin divisors
        /\ outcome # "ZeroDivisionError"
        /\ divisors # {} => (call.start < call.end /\ call.label)
        /\ call.end <= call.start =>
             /\ outcome = "ok"
             /\ New = {}
             /\ SubSeq(axis, 1, Len(axisBefore)) = axisBefore

C10_Witness ==
    /\ Called
    /\ call.end < call.start
    /\ call.label
    /\ \E i \in 1..table.n :
        /\ call.end < Row(table, i)["start"]
        /\ Row(table, i)["start"] < call.start

====
